---------------------------- MODULE Spec2Model ----------------------------
(***************************************************************************)
(* A model of the unified-diff parser of diffparser.go: Parse, its helpers *)
(* lineMode and isSourceLine, and the queries Diff.Changed and             *)
(* DiffChunk.Length.                                                       *)
(*                                                                         *)
(* Text is modelled by TLA+ strings, used as sequences of characters       *)
(* (Len, SubSeq and \o).  Parse is one loop over the lines of the input;   *)
(* every iteration of the loop is one step of the model, taken by the      *)
(* action of the switch case that the line selects.                        *)
(***************************************************************************)
EXTENDS Integers, Sequences, FiniteSets, TLC

(***************************************************************************)
(* Bounds of the model.                                                    *)
(***************************************************************************)
\* greatest number of lines of an input of the general specification
MaxLines == 3
\* greatest number of lines after the first heading, in the specification of
\* hunks
MaxHunkLines == 4
\* greatest number of lines after the first, in the specification of changed
\* lines
MaxChangedLines == 4
\* greatest number of lines before and after the example file
MaxAround == 1

(***************************************************************************)
(* Strings.                                                                *)
(***************************************************************************)
\* the character of s at the 1-based position i, "" outside of s
Ch(s, i) == IF i >= 1 /\ i <= Len(s) THEN SubSeq(s, i, i) ELSE ""

\* s[n:] of Go, for 0 <= n <= len(s)
From(s, n) == SubSeq(s, n + 1, Len(s))

\* strings.HasPrefix
HasPrefix(s, p) == Len(s) >= Len(p) /\ SubSeq(s, 1, Len(p)) = p

\* strings.TrimPrefix
TrimPrefix(s, p) == IF HasPrefix(s, p) THEN From(s, Len(p)) ELSE s

RECURSIVE Join(_, _)
\* strings.Join: the text whose lines are ls
Join(ls, sep) ==
    IF ls = << >> THEN ""
    ELSE IF Len(ls) = 1 THEN ls[1]
    ELSE ls[1] \o sep \o Join(Tail(ls), sep)

\* the positions of the line breaks of s
Breaks(s) == {i \in 1..Len(s) : SubSeq(s, i, i) = "\n"}

\* the k-th line break of s, 0 for k = 0 and Len(s) + 1 after the last
Break(s, k) ==
    IF k = 0 THEN 0
    ELSE IF k > Cardinality(Breaks(s)) THEN Len(s) + 1
    ELSE CHOOSE p \in Breaks(s) : Cardinality({q \in Breaks(s) : q < p}) = k - 1

\* strings.Split(s, "\n"): the pieces between the line breaks, never empty:
\* Split("") = [""]
Split(s) ==
    [k \in 1..(Cardinality(Breaks(s)) + 1) |->
        SubSeq(s, Break(s, k - 1) + 1, Break(s, k) - 1)]

Digits == {"0", "1", "2", "3", "4", "5", "6", "7", "8", "9"}

\* the value of one decimal digit
DigitVal(c) ==
    CASE c = "0" -> 0 [] c = "1" -> 1 [] c = "2" -> 2 [] c = "3" -> 3
      [] c = "4" -> 4 [] c = "5" -> 5 [] c = "6" -> 6 [] c = "7" -> 7
      [] c = "8" -> 8 [] c = "9" -> 9


RECURSIVE DigitsEnd(_, _)
\* the first position from i on that holds no digit: the end of the greedy \d+
DigitsEnd(s, i) == IF Ch(s, i) \in Digits THEN DigitsEnd(s, i + 1) ELSE i

\* the n characters of s from position i, "" when s ends before
Sub(s, i, n) == IF i >= 1 /\ i + n - 1 <= Len(s) THEN SubSeq(s, i, i + n - 1) ELSE ""

(***************************************************************************)
(* The hunk heading's regular expression,                                  *)
(*     @@ \-(\d+),?(\d+)? \+(\d+),?(\d+)? @@ ?(.+)?                         *)
(* as the sequence of its parts.  Every quantifier is greedy and no        *)
(* shorter choice can succeed where the greedy one fails (a run of digits  *)
(* ends at a character that is no digit, and what follows an optional      *)
(* character never matches that character), so a match is computed part by *)
(* part, from left to right.                                               *)
(***************************************************************************)
HunkPattern ==
    << [kind |-> "lit", lit |-> "@@ -"],
       [kind |-> "num", lit |-> ""],
       [kind |-> "opt", lit |-> ","],
       [kind |-> "optnum", lit |-> ""],
       [kind |-> "lit", lit |-> " +"],
       [kind |-> "num", lit |-> ""],
       [kind |-> "opt", lit |-> ","],
       [kind |-> "optnum", lit |-> ""],
       [kind |-> "lit", lit |-> " @@"],
       [kind |-> "opt", lit |-> " "],
       [kind |-> "rest", lit |-> ""] >>

RECURSIVE MatchFrom(_, _, _, _)
\* the groups captured by the parts of the pattern from the k-th on, matched
\* at position i of s after the groups gs, or << >> when they do not match
MatchFrom(s, i, k, gs) ==
    IF k > Len(HunkPattern) THEN gs
    ELSE LET t == HunkPattern[k]
             e == DigitsEnd(s, i)
         IN  CASE t.kind = "lit" ->
                    IF Sub(s, i, Len(t.lit)) = t.lit
                    THEN MatchFrom(s, i + Len(t.lit), k + 1, gs)
                    ELSE << >>
               [] t.kind = "opt" ->
                    MatchFrom(s, IF Ch(s, i) = t.lit THEN i + 1 ELSE i, k + 1, gs)
               [] t.kind = "num" ->
                    IF e > i
                    THEN MatchFrom(s, e, k + 1, Append(gs, SubSeq(s, i, e - 1)))
                    ELSE << >>
               [] t.kind = "optnum" ->
                    MatchFrom(s, e, k + 1, Append(gs, SubSeq(s, i, e - 1)))
               [] t.kind = "rest" ->
                    MatchFrom(s, Len(s) + 1, k + 1, Append(gs, SubSeq(s, i, Len(s))))

\* the match at position p: the sequence m of Go, m[0] (the whole match)
\* first, or the empty sequence
MatchAt(s, p) ==
    IF MatchFrom(s, p, 1, << >>) = << >> THEN << >>
    ELSE << SubSeq(s, p, Len(s)) >> \o MatchFrom(s, p, 1, << >>)

\* re.FindStringSubmatch: the leftmost match, anywhere in the line
FindStringSubmatch(s) ==
    LET ps == {p \in 1..Len(s) : MatchAt(s, p) # << >>}
    IN  IF ps = {} THEN << >>
        ELSE MatchAt(s, CHOOSE p \in ps : \A q \in ps : p <= q)

\* m[k] of Go (TLA+ sequences start at 1)
Group(m, k) == m[k + 1]

RECURSIVE StripZeros(_)
StripZeros(s) == IF Len(s) > 1 /\ Ch(s, 1) = "0" THEN StripZeros(From(s, 1)) ELSE s

RECURSIVE DigitsLeq(_, _)
\* a <= b for two digit strings of one length
DigitsLeq(a, b) ==
    IF a = "" THEN TRUE
    ELSE IF DigitVal(Ch(a, 1)) < DigitVal(Ch(b, 1)) THEN TRUE
    ELSE IF DigitVal(Ch(a, 1)) > DigitVal(Ch(b, 1)) THEN FALSE
    ELSE DigitsLeq(From(a, 1), From(b, 1))

RECURSIVE DigitsValue(_)
DigitsValue(s) ==
    IF s = "" THEN 0
    ELSE 10 * DigitsValue(SubSeq(s, 1, Len(s) - 1)) + DigitVal(Ch(s, Len(s)))

\* the decimal digits of the greatest int (64 bits)
MaxIntDigits == "9223372036854775807"

\* strconv.Atoi of a string of digits: it fails only out of the range of int
Atoi(s) ==
    LET z == StripZeros(s)
    IN  IF Len(z) > Len(MaxIntDigits)
           \/ (Len(z) = Len(MaxIntDigits) /\ ~DigitsLeq(z, MaxIntDigits))
        THEN [ok |-> FALSE, val |-> 0,
              err |-> "strconv.Atoi: parsing \"" \o s \o "\": value out of range"]
        ELSE [ok |-> TRUE, val |-> DigitsValue(z), err |-> ""]

(***************************************************************************)
(* The data model.                                                         *)
(***************************************************************************)
\* FileMode
Deleted == 0
Modified == 1
New == 2

\* DiffLineMode
Added == 0
Removed == 1
Unchanged == 2

\* the zero values of DiffRange, DiffChunk and DiffFile
EmptyRange == [Start |-> 0, Length |-> 0, Lines |-> << >>]

\* &DiffChunk{}, made at the input line of index i (the history field src)
EmptyChunk(i) ==
    [ChunkHeader |-> "", OrigRange |-> EmptyRange, NewRange |-> EmptyRange,
     WholeRange |-> EmptyRange, src |-> i]

EmptyFile ==
    [DiffHeader |-> "", Mode |-> Deleted, OrigName |-> "", NewName |-> "",
     Chunks |-> << >>]

oldFilePrefix == "--- a/"
newFilePrefix == "+++ b/"
nullDest == "+++ /dev/null"
nullSource == "--- /dev/null"
noNewline == "\\ No newline at end of file"

\* a changed lineMode: a line of any other first character is context
MutLineMode(line) ==
    LET c == SubSeq(line, 1, 1)
    IN  IF c = "+" THEN [ok |-> TRUE, m |-> Added, err |-> ""]
        ELSE IF c = "-" THEN [ok |-> TRUE, m |-> Removed, err |-> ""]
        ELSE [ok |-> TRUE, m |-> Unchanged, err |-> ""]

\* a changed lineMode: "+" stands for Removed and "-" for Added
MutLineModeSwapped(line) ==
    LET c == SubSeq(line, 1, 1)
    IN  IF c = " " THEN [ok |-> TRUE, m |-> Unchanged, err |-> ""]
        ELSE IF c = "+" THEN [ok |-> TRUE, m |-> Removed, err |-> ""]
        ELSE IF c = "-" THEN [ok |-> TRUE, m |-> Added, err |-> ""]
        ELSE [ok |-> FALSE, m |-> Unchanged,
              err |-> "could not parse line mode for line: \"" \o line \o "\""]

(***************************************************************************)
(* lineMode: the mode of a line that is not empty, or an error.            *)
(***************************************************************************)
lineMode(line) ==
    LET c == SubSeq(line, 1, 1)
    IN  IF c = " " THEN [ok |-> TRUE, m |-> Unchanged, err |-> ""]
        ELSE IF c = "+" THEN [ok |-> TRUE, m |-> Added, err |-> ""]
        ELSE IF c = "-" THEN [ok |-> TRUE, m |-> Removed, err |-> ""]
        ELSE [ok |-> FALSE, m |-> Unchanged,
              err |-> "could not parse line mode for line: \"" \o line \o "\""]

isSourceLine(line) ==
    IF line = noNewline THEN FALSE
    ELSE IF Len(line) = 0
            \/ (Len(line) >= 3 /\ (SubSeq(line, 1, 3) = "---" \/ SubSeq(line, 1, 3) = "+++"))
    THEN FALSE
    ELSE TRUE

\* the regular expression ^index .+$
MatchIndex(s) == HasPrefix(s, "index ") /\ Len(s) >= 7

\* the regular expression ^(-|\+){3} .+$
MatchMarker(s) ==
    /\ Len(s) >= 5
    /\ \A i \in 1..3 : Ch(s, i) \in {"-", "+"}
    /\ Ch(s, 4) = " "

\* the header of the file that the line at index idx (from 0) starts
Header(ls, i) ==
    LET l == ls[i + 1]
    IN  IF Len(ls) > i + 3
        THEN LET index == ls[i + 2]
                 mp1 == ls[i + 3]
                 mp2 == ls[i + 4]
                 h == IF MatchIndex(index) THEN l \o "\n" \o index ELSE l
             IN  IF MatchMarker(mp1) /\ MatchMarker(mp2)
                 THEN h \o "\n" \o mp1 \o "\n" \o mp2
                 ELSE h
        ELSE l

\* a changed AppendFile: the new file takes the place of the last one
MutAppendFile(fs, f) == IF fs = << >> THEN << f >> ELSE [fs EXCEPT ![Len(fs)] = f]

\* append(diff.Files, file)
AppendFile(fs, f) == Append(fs, f)

\* a changed LineCase: a source line is a body line also when no hunk is
\* active
MutLineCase(l, inH) ==
    IF HasPrefix(l, "diff ") THEN "diff"
    ELSE IF l = nullDest THEN "nullDest"
    ELSE IF l = nullSource THEN "nullSource"
    ELSE IF HasPrefix(l, oldFilePrefix) THEN "oldFile"
    ELSE IF HasPrefix(l, newFilePrefix) THEN "newFile"
    ELSE IF HasPrefix(l, "@@ ") THEN "hunk"
    ELSE IF isSourceLine(l) THEN "source"
    ELSE "none"

\* the switch of Parse: the first case whose condition holds for the line
LineCase(l, inH) ==
    IF HasPrefix(l, "diff ") THEN "diff"
    ELSE IF l = nullDest THEN "nullDest"
    ELSE IF l = nullSource THEN "nullSource"
    ELSE IF HasPrefix(l, oldFilePrefix) THEN "oldFile"
    ELSE IF HasPrefix(l, newFilePrefix) THEN "newFile"
    ELSE IF HasPrefix(l, "@@ ") THEN "hunk"
    ELSE IF inH /\ isSourceLine(l) THEN "source"
    ELSE "none"

\* a changed HeadingPos: the counter restarts at every hunk heading
MutHeadingPos(first, pos) == 0

\* the position counter at a hunk heading, pos being the counter after its
\* increment for the line
HeadingPos(first, pos) == IF first THEN 0 ELSE pos

\* a changed Incr: the counter stays
MutIncr(n) == n

\* AddedCount++ and RemovedCount++
Incr(n) == n + 1

(***************************************************************************)
(* The hunk heading: the two ranges and the header, or an error.           *)
(***************************************************************************)
ParseHeading(l) ==
    LET m == FindStringSubmatch(l)
        a == Atoi(Group(m, 1))
        b == IF Len(Group(m, 2)) > 0 THEN Atoi(Group(m, 2)) ELSE a
        c == Atoi(Group(m, 3))
        d == IF Len(Group(m, 4)) > 0 THEN Atoi(Group(m, 4)) ELSE c
        bad(e) == [ok |-> FALSE, err |-> e, orig |-> EmptyRange, new |-> EmptyRange,
                   header |-> ""]
    IN  IF Len(m) < 5 THEN bad("Error parsing line: " \o l)
        ELSE IF ~a.ok THEN bad(a.err)
        ELSE IF ~b.ok THEN bad(b.err)
        ELSE IF ~c.ok THEN bad(c.err)
        ELSE IF ~d.ok THEN bad(d.err)
        ELSE [ok |-> TRUE, err |-> "",
              orig |-> [Start |-> a.val, Length |-> b.val, Lines |-> << >>],
              new |-> [Start |-> c.val, Length |-> d.val, Lines |-> << >>],
              header |-> Group(m, 5)]

(***************************************************************************)
(* The state of one call of Parse, and of the call of Changed that may     *)
(* follow it.                                                              *)
(*   Raw, lines        diff.Raw and strings.Split(diffString, "\n")        *)
(*   idx               the index (from 0) of the line the loop is at       *)
(*   Files, FilesNil   diff.Files, and whether it is still the nil slice   *)
(*   file              the index in Files of *file, 0 for nil              *)
(*   hunk              the place <<f, c>> of *hunk in Files, <<0, 0>> nil   *)
(*   pc                "loop", "returned", "panic" or "queried"            *)
(*   ret, err          what Parse returned: "diff" or "nil", and the       *)
(*                     error's text ("" for a nil error)                   *)
(*   changed           the map Changed returned                            *)
(* A DiffLine and a DiffChunk record carry, next to the fields of the      *)
(* code, the history field src: the index (from 0) of the input line they  *)
(* were made from.  The code never reads it.                               *)
(***************************************************************************)
VARIABLES Raw, lines, idx, Files, FilesNil, file, hunk, AddedCount,
          RemovedCount, inHunk, diffPosCount, firstHunkInFile, pc, ret, err,
          changed

vars == << Raw, lines, idx, Files, FilesNil, file, hunk, AddedCount,
           RemovedCount, inHunk, diffPosCount, firstHunkInFile, pc, ret, err,
           changed >>

\* the state at the top of the loop, for the input text
Start(text) ==
    /\ Raw = text
    /\ lines = Split(text)
    /\ idx = 0
    /\ Files = << >>
    /\ FilesNil = TRUE
    /\ file = 0
    /\ hunk = << 0, 0 >>
    /\ AddedCount = 0
    /\ RemovedCount = 0
    /\ inHunk = FALSE
    /\ diffPosCount = 0
    /\ firstHunkInFile = FALSE
    /\ pc = "loop"
    /\ ret = "none"
    /\ err = ""
    /\ changed = << >>

\* the loop is at a line of the given case
At(case) ==
    /\ pc = "loop"
    /\ idx < Len(lines)
    /\ LineCase(lines[idx + 1], inHunk) = case

\* a nil pointer dereference or a slice out of its bounds: the call ends in
\* a panic
Panic ==
    /\ pc' = "panic"
    /\ UNCHANGED << Raw, lines, idx, Files, FilesNil, file, hunk, AddedCount,
                    RemovedCount, ret, err, changed >>

\* return nil, err
Fail(e) ==
    /\ pc' = "returned"
    /\ ret' = "nil"
    /\ err' = e

\* case strings.HasPrefix(l, "diff ")
CaseDiff ==
    /\ At("diff")
    /\ diffPosCount' = diffPosCount + 1
    /\ inHunk' = FALSE
    /\ Files' = AppendFile(Files,
                    [EmptyFile EXCEPT !.DiffHeader = Header(lines, idx),
                                      !.Mode = Modified])
    /\ FilesNil' = FALSE
    /\ file' = Len(Files')
    /\ firstHunkInFile' = TRUE
    /\ idx' = idx + 1
    /\ UNCHANGED << Raw, lines, hunk, AddedCount, RemovedCount, pc, ret, err,
                    changed >>

\* file.<field> = value, where file may be nil
SetFile(field, value) ==
    IF file = 0
    THEN Panic
    ELSE /\ Files' = [Files EXCEPT ![file] = [@ EXCEPT ![field] = value]]
         /\ idx' = idx + 1
         /\ UNCHANGED << Raw, lines, FilesNil, file, hunk, AddedCount,
                         RemovedCount, pc, ret, err, changed >>

\* case l == "+++ /dev/null"
CaseNullDest ==
    /\ At("nullDest")
    /\ diffPosCount' = diffPosCount + 1
    /\ UNCHANGED << inHunk, firstHunkInFile >>
    /\ SetFile("Mode", Deleted)

\* case l == "--- /dev/null"
CaseNullSource ==
    /\ At("nullSource")
    /\ diffPosCount' = diffPosCount + 1
    /\ UNCHANGED << inHunk, firstHunkInFile >>
    /\ SetFile("Mode", New)

\* case strings.HasPrefix(l, oldFilePrefix)
CaseOldFile ==
    /\ At("oldFile")
    /\ diffPosCount' = diffPosCount + 1
    /\ UNCHANGED << inHunk, firstHunkInFile >>
    /\ SetFile("OrigName", TrimPrefix(lines[idx + 1], oldFilePrefix))

\* case strings.HasPrefix(l, newFilePrefix)
CaseNewFile ==
    /\ At("newFile")
    /\ diffPosCount' = diffPosCount + 1
    /\ UNCHANGED << inHunk, firstHunkInFile >>
    /\ SetFile("NewName", TrimPrefix(lines[idx + 1], newFilePrefix))

\* case strings.HasPrefix(l, "@@ ")
CaseHunk ==
    /\ At("hunk")
    /\ diffPosCount' = HeadingPos(firstHunkInFile, diffPosCount + 1)
    /\ firstHunkInFile' = FALSE
    /\ inHunk' = TRUE
    /\ IF file = 0
       THEN Panic
       ELSE LET h == ParseHeading(lines[idx + 1])
                c == Len(Files[file].Chunks) + 1
                chunk == IF h.ok
                         THEN [EmptyChunk(idx) EXCEPT !.ChunkHeader = h.header,
                                                      !.OrigRange = h.orig,
                                                      !.NewRange = h.new]
                         ELSE EmptyChunk(idx)
            IN  /\ Files' = [Files EXCEPT ![file].Chunks = Append(@, chunk)]
                /\ hunk' = << file, c >>
                /\ UNCHANGED << Raw, lines, FilesNil, file, changed >>
                /\ IF h.ok
                   THEN /\ AddedCount' = h.new.Start
                        /\ RemovedCount' = h.orig.Start
                        /\ idx' = idx + 1
                        /\ UNCHANGED << pc, ret, err >>
                   ELSE /\ Fail(h.err)
                        /\ UNCHANGED << idx, AddedCount, RemovedCount >>

\* line.Content, l[1:], for a line that is not empty
FirstContent(l) == From(l, 1)

\* a changed SecondContent: the content keeps its first character
MutSecondContent(content) == content

\* newLine.Content[1:] and origLine.Content[1:], for a content that is not
\* empty
SecondContent(content) == From(content, 1)

\* case inHunk && isSourceLine(l)
CaseSource ==
    /\ At("source")
    /\ diffPosCount' = diffPosCount + 1
    /\ UNCHANGED << Raw, lines, FilesNil, file, hunk, inHunk, firstHunkInFile,
                    changed >>
    /\ LET l == lines[idx + 1]
           m == lineMode(l)
           f == hunk[1]
           c == hunk[2]
           line == [Mode |-> m.m, Number |-> 0, Content |-> FirstContent(l),
                    Position |-> diffPosCount', src |-> idx]
       IN  IF ~m.ok
           THEN /\ Fail(m.err)
                /\ UNCHANGED << idx, Files, AddedCount, RemovedCount >>
           ELSE IF m.m # Unchanged /\ Len(line.Content) < 1
           THEN /\ pc' = "panic"
                /\ UNCHANGED << idx, Files, AddedCount, RemovedCount, ret, err >>
           ELSE /\ idx' = idx + 1
                /\ UNCHANGED << pc, ret, err >>
                /\ IF m.m = Added
                   THEN LET newLine == [line EXCEPT !.Number = AddedCount,
                                                    !.Content = SecondContent(@)]
                        IN  /\ Files' = [Files EXCEPT
                                  ![f].Chunks[c].NewRange.Lines = Append(@, newLine),
                                  ![f].Chunks[c].WholeRange.Lines = Append(@, newLine)]
                            /\ AddedCount' = Incr(AddedCount)
                            /\ UNCHANGED RemovedCount
                   ELSE IF m.m = Removed
                   THEN LET origLine == [line EXCEPT !.Number = RemovedCount,
                                                     !.Content = SecondContent(@)]
                        IN  /\ Files' = [Files EXCEPT
                                  ![f].Chunks[c].OrigRange.Lines = Append(@, origLine),
                                  ![f].Chunks[c].WholeRange.Lines = Append(@, origLine)]
                            /\ RemovedCount' = Incr(RemovedCount)
                            /\ UNCHANGED AddedCount
                   ELSE LET newLine == [line EXCEPT !.Number = AddedCount]
                            origLine == [line EXCEPT !.Number = RemovedCount]
                        IN  /\ Files' = [Files EXCEPT
                                  ![f].Chunks[c].NewRange.Lines = Append(@, newLine),
                                  ![f].Chunks[c].WholeRange.Lines = Append(@, newLine),
                                  ![f].Chunks[c].OrigRange.Lines = Append(@, origLine)]
                            /\ AddedCount' = Incr(AddedCount)
                            /\ RemovedCount' = Incr(RemovedCount)

\* no case of the switch holds: the line is passed over
CaseNone ==
    /\ At("none")
    /\ diffPosCount' = diffPosCount + 1
    /\ idx' = idx + 1
    /\ UNCHANGED << Raw, lines, Files, FilesNil, file, hunk, AddedCount,
                    RemovedCount, inHunk, firstHunkInFile, pc, ret, err,
                    changed >>

\* return &diff, nil
Return ==
    /\ pc = "loop"
    /\ idx = Len(lines)
    /\ pc' = "returned"
    /\ ret' = "diff"
    /\ err' = ""
    /\ UNCHANGED << Raw, lines, idx, Files, FilesNil, file, hunk, AddedCount,
                    RemovedCount, inHunk, diffPosCount, firstHunkInFile,
                    changed >>

(***************************************************************************)
(* Changed.  A Go map is a function on the set of its keys.                *)
(***************************************************************************)
\* a changed Counted: the lines of deleted files count too
MutCounted(f, dl) == dl.Mode = Added

\* the body of the innermost loop is reached for line dl of file f
Counted(f, dl) == f.Mode # Deleted /\ dl.Mode = Added

\* a changed MapAppend: the number is put before those of the key
MutMapAppend(m, key, n) ==
    IF key \in DOMAIN m
    THEN [m EXCEPT ![key] = << n >> \o @]
    ELSE [k \in DOMAIN m \cup {key} |-> IF k = key THEN << n >> ELSE m[k]]

\* dFiles[key] = append(dFiles[key], n)
MapAppend(m, key, n) ==
    IF key \in DOMAIN m
    THEN [m EXCEPT ![key] = Append(@, n)]
    ELSE [k \in DOMAIN m \cup {key} |-> IF k = key THEN << n >> ELSE m[k]]

RECURSIVE ChangedLines(_, _, _, _)
\* the loop over h.NewRange.Lines, from its k-th line on
ChangedLines(m, f, ls, k) ==
    IF k > Len(ls) THEN m
    ELSE ChangedLines(IF Counted(f, ls[k]) THEN MapAppend(m, f.NewName, ls[k].Number)
                      ELSE m,
                      f, ls, k + 1)

RECURSIVE ChangedChunks(_, _, _)
\* the loop over f.Chunks, from its c-th chunk on
ChangedChunks(m, f, c) ==
    IF c > Len(f.Chunks) THEN m
    ELSE ChangedChunks(ChangedLines(m, f, f.Chunks[c].NewRange.Lines, 1), f, c + 1)

RECURSIVE ChangedFiles(_, _, _)
\* the loop over d.Files, from its i-th file on
ChangedFiles(m, fs, i) ==
    IF i > Len(fs) THEN m
    ELSE ChangedFiles(ChangedChunks(m, fs[i], 1), fs, i + 1)

\* Diff.Changed
Changed(fs) == ChangedFiles(<< >>, fs, 1)

\* DiffChunk.Length
Length(chunk) == Len(chunk.WholeRange.Lines) + 1

\* the caller, holding the Diff that Parse returned, calls Changed
CallChanged ==
    /\ pc = "returned"
    /\ ret = "diff"
    /\ changed' = Changed(Files)
    /\ pc' = "queried"
    /\ UNCHANGED << Raw, lines, idx, Files, FilesNil, file, hunk, AddedCount,
                    RemovedCount, inHunk, diffPosCount, firstHunkInFile, ret,
                    err >>

Next ==
    \/ CaseDiff
    \/ CaseNullDest
    \/ CaseNullSource
    \/ CaseOldFile
    \/ CaseNewFile
    \/ CaseHunk
    \/ CaseSource
    \/ CaseNone
    \/ Return
    \/ CallChanged

(***************************************************************************)
(* The inputs.  Every specification starts Parse on each text of a bounded *)
(* set of texts and runs the same steps.                                   *)
(***************************************************************************)
\* the sequences of at most n elements of S
SeqsUpTo(S, n) == UNION {[1..k -> S] : k \in 0..n}

\* lines of every case of the switch
Pool ==
    {"diff a", "--- a/f", "+++ b/g", nullSource, nullDest, "@@ -2 +4,1 @@ h",
     "@@ bad @@", "+ab", "-cd", " ef", "?x", ""}

\* the first file of a diff of three files, as git writes it
ExampleFile ==
    << "diff --git a/file1 b/file1", "index 9f5132e..bd0a7a6 100644",
       "--- a/file1", "+++ b/file1", "@@ -1,4 +1,4 @@",
       "+add a line", " some", " lines", "-in", " file1" >>

\* a modified, a deleted and a new file
ExampleDiff ==
    ExampleFile \o
    << "diff --git a/file2 b/file2", "deleted file mode 100644",
       "index ba1b8c3..0000000", "--- a/file2", "+++ /dev/null",
       "@@ -1 +0,0 @@", "-file2",
       "diff --git a/file4 b/file4", "new file mode 100644",
       "index 0000000..b5e6b6e", "--- /dev/null", "+++ b/file4",
       "@@ -0,0 +1 @@", "+file4", noNewline >>

\* single inputs, next to the products of the pools
Samples ==
    { ExampleDiff,
      << "diff a", "@@ @@ -1 +1 @@", "+ab" >>,
      << "diff a", "@@ -1, +3, @@x", "+ab" >>,
      << "diff a", "@@ -99999999999999999999 +1 @@" >>,
      << "diff a", "@@ -1 +1 @@", "+" >>,
      << "diff a", "diff b", "@@ -1 +1 @@", " ef", "diff a" >>,
      << "diff a", "@@ -1 +1 @@", " ef", "diff b", "@@ -1 +1 @@", "+ab", "",
         "@@ -5 +5 @@", "-cd" >>,
      << "diff a", "+++ b/g", nullDest, "@@ -1 +1 @@", "+ab", "diff b",
         "+++ b/g", "@@ -2 +2 @@", " ef", "+ab" >>,
      << "diff a", "+++ b/g", "@@ -5 +5 @@", "+ab", "+cd", "@@ -1 +1 @@", "+ab",
         "diff b", "+++ b/g", "@@ -1 +1 @@", "+ab" >>,
      << "diff a", "@@ -1 +1 @@", "+ab", "diff b", "+ab", "?x", " ef",
         "@@ -1 +1 @@", "-cd" >>,
      << "diff a", "index 1..2", "Binary files a and b differ" >>,
      << "diff a", "@@ -1 +1 @@", " ef", "?x", "+ab" >> }

\* the general specification: every text of at most MaxLines lines of Pool
Init == \E ls \in SeqsUpTo(Pool, MaxLines) \cup Samples : Start(Join(ls, "\n"))

Spec == Init /\ [][Next]_vars

\* hunks: a file, its first heading and the lines that follow
HunkPool == {"diff a", "@@ -2 +4,1 @@ h", "+ab", "-cd", " ef", ""}

InitHunk ==
    \E ls \in {<< "diff a", "@@ -2 +4,1 @@ h" >> \o t : t \in SeqsUpTo(HunkPool, MaxHunkLines)}
              \cup Samples :
        Start(Join(ls, "\n"))

SpecHunk == InitHunk /\ [][Next]_vars

\* changed lines: files with and without a name, deleted or not
ChangedPool == {"diff a", "+++ b/g", nullDest, "@@ -2 +4,1 @@ h", "+ab", " ef"}

InitChanged ==
    \E ls \in {<< "diff a" >> \o t : t \in SeqsUpTo(ChangedPool, MaxChangedLines)}
              \cup Samples :
        Start(Join(ls, "\n"))

SpecChanged == InitChanged /\ [][Next]_vars

\* lines that begin or end a file or a hunk, or end Parse
AroundPool == {"diff a", nullSource, nullDest, "@@ -2 +4,1 @@ h", "?x", ""}

\* the example file, between at most MaxAround lines of AroundPool on either
\* side
InitExample ==
    \E a \in SeqsUpTo(AroundPool, MaxAround), b \in SeqsUpTo(AroundPool, MaxAround) :
        Start(Join(a \o ExampleFile \o b, "\n"))

SpecExample == InitExample /\ [][Next]_vars

(***************************************************************************)
(* What the claims speak of, computed from the input alone.                *)
(***************************************************************************)
\* Parse returned a Diff and no error
Succeeded == pc \in {"returned", "queried"} /\ ret = "diff"

\* Parse returned nil and an error
Failed == pc = "returned" /\ ret = "nil" /\ err # ""

\* the places (from 1) of the lines that begin with "diff "
DiffLines(ls) == {i \in 1..Len(ls) : HasPrefix(ls[i], "diff ")}

\* the place of the k-th of them
NthDiff(ls, k) ==
    CHOOSE i \in DiffLines(ls) : Cardinality({j \in DiffLines(ls) : j < i}) = k - 1

\* the place of the last line of the section of the k-th of them
SectionEnd(ls, k) ==
    IF k >= Cardinality(DiffLines(ls)) THEN Len(ls) ELSE NthDiff(ls, k + 1) - 1

\* the places of the lines of the section of the k-th file
Section(ls, k) == NthDiff(ls, k)..SectionEnd(ls, k)

\* the place of the first hunk heading of the k-th file, 0 when it has none
FirstHeading(ls, k) ==
    LET hs == {i \in Section(ls, k) : HasPrefix(ls[i], "@@ ")}
    IN  IF hs = {} THEN 0 ELSE CHOOSE i \in hs : \A j \in hs : i <= j

\* a hunk is active at the line of place i: of the lines before it that begin
\* with "diff " or "@@ ", the last one is a hunk heading
HunkActiveAt(ls, i) ==
    \E h \in 1..(i - 1) :
        /\ HasPrefix(ls[h], "@@ ")
        /\ \A j \in (h + 1)..(i - 1) :
              ~HasPrefix(ls[j], "diff ") /\ ~HasPrefix(ls[j], "@@ ")

\* every chunk of the Diff, with the index of its file
AllChunks ==
    UNION {{[f |-> f, c |-> c, chunk |-> Files[f].Chunks[c]] :
               c \in 1..Len(Files[f].Chunks)} : f \in 1..Len(Files)}

\* the range's records without the history field
Records(range) ==
    [k \in 1..Len(range.Lines) |->
        [Mode |-> range.Lines[k].Mode, Number |-> range.Lines[k].Number,
         Content |-> range.Lines[k].Content, Position |-> range.Lines[k].Position]]

\* the input lines that the records of lns were made from
Sources(lns) == [k \in 1..Len(lns) |-> lns[k].src]

\* the mode that the marker (the first character of a body line) stands for
ModeOfMarker(c) == CASE c = "+" -> Added [] c = "-" -> Removed [] c = " " -> Unchanged

\* the records of lns of one of the modes
OfModes(lns, modes) == SelectSeq(lns, LAMBDA r : r.Mode \in modes)

(***************************************************************************)
(* C1.  After a successful Parse, in every hunk of every file, the k-th    *)
(* record of NewRange has Number NewRange.Start + k - 1 and the k-th       *)
(* record of OrigRange has Number OrigRange.Start + k - 1; NewRange holds  *)
(* the records of the Added and Unchanged lines of the hunk and OrigRange  *)
(* those of its Removed and Unchanged lines, in the order of the input.    *)
(***************************************************************************)
C1_NumbersFromStart ==
    Succeeded =>
        \A x \in AllChunks :
            LET new == x.chunk.NewRange
                orig == x.chunk.OrigRange
                whole == x.chunk.WholeRange
            IN  /\ \A k \in 1..Len(new.Lines) : new.Lines[k].Number = new.Start + k - 1
                /\ \A k \in 1..Len(orig.Lines) : orig.Lines[k].Number = orig.Start + k - 1
                /\ Sources(new.Lines) = Sources(OfModes(whole.Lines, {Added, Unchanged}))
                /\ Sources(orig.Lines) = Sources(OfModes(whole.Lines, {Removed, Unchanged}))
                /\ \A k \in 1..Len(whole.Lines) :
                      ModeOfMarker(Ch(lines[whole.Lines[k].src + 1], 1))
                          = whole.Lines[k].Mode

\* a file of two hunks: two lines on the new side of the first, and a line on
\* either side of the second, where the counters have restarted
C1_Witness ==
    /\ Succeeded
    /\ \E f \in 1..Len(Files) :
          /\ Len(Files[f].Chunks) >= 2
          /\ Len(Files[f].Chunks[1].NewRange.Lines) >= 2
          /\ Len(Files[f].Chunks[2].NewRange.Lines) >= 1
          /\ Len(Files[f].Chunks[2].OrigRange.Lines) >= 1

(***************************************************************************)
(* C2.  After a successful Parse, the Position of every line record of a   *)
(* file is the number of input lines from the first hunk heading of that   *)
(* file to the line of the record: 1 for the line after the heading, one   *)
(* more for every input line, later headings and passed-over lines         *)
(* included, and from 1 again in the next file.                            *)
(***************************************************************************)
C2_PositionCountsRawLines ==
    Succeeded =>
        \A x \in AllChunks :
            \A r \in {x.chunk.NewRange, x.chunk.OrigRange, x.chunk.WholeRange} :
                \A k \in 1..Len(r.Lines) :
                    /\ FirstHeading(lines, x.f) # 0
                    /\ r.Lines[k].Position = (r.Lines[k].src + 1) - FirstHeading(lines, x.f)

\* the second file has two hunks, and the line of its second hunk, after a
\* passed-over line and the heading, is at Position 4
C2_Witness ==
    /\ Succeeded
    /\ Len(Files) >= 2
    /\ Len(Files[1].Chunks) >= 1
    /\ Len(Files[1].Chunks[1].NewRange.Lines) >= 1
    /\ Len(Files[2].Chunks) >= 2
    /\ Len(Files[2].Chunks[1].NewRange.Lines) >= 1
    /\ Files[2].Chunks[1].NewRange.Lines[1].Position = 1
    /\ Len(Files[2].Chunks[2].OrigRange.Lines) >= 1
    /\ Files[2].Chunks[2].OrigRange.Lines[1].Position = 4

(***************************************************************************)
(* C3.  In the returned Diff, a file whose section holds the line          *)
(* "+++ /dev/null" has Mode Deleted and an empty NewName, and a file whose *)
(* section holds the line "--- /dev/null" has Mode New and an empty        *)
(* OrigName, whatever other lines the section holds.                       *)
(***************************************************************************)
C3_SentinelDecidesMode ==
    Succeeded =>
        \A k \in 1..Len(Files) :
            k <= Cardinality(DiffLines(lines)) =>
                /\ (\E i \in Section(lines, k) : lines[i] = nullDest)
                      => (Files[k].Mode = Deleted /\ Files[k].NewName = "")
                /\ (\E i \in Section(lines, k) : lines[i] = nullSource)
                      => (Files[k].Mode = New /\ Files[k].OrigName = "")

(***************************************************************************)
(* C4.  Parse is total: on every input it returns a Diff or an error, and  *)
(* never ends in a runtime fault.                                          *)
(***************************************************************************)
C4_ParseTotal == pc # "panic"

(***************************************************************************)
(* C5.  When a hunk heading omits the length of a side, the range of that  *)
(* side has Length 1, for every start.                                     *)
(***************************************************************************)
C5_OmittedLengthIsOne ==
    Succeeded =>
        \A x \in AllChunks :
            LET m == FindStringSubmatch(lines[x.chunk.src + 1])
            IN  /\ Group(m, 2) = "" => x.chunk.OrigRange.Length = 1
                /\ Group(m, 4) = "" => x.chunk.NewRange.Length = 1

(***************************************************************************)
(* C6.  The example of the specification: a Modified file whose first hunk *)
(* has the heading "@@ -1,4 +1,4 @@" and the body lines "+add a line",     *)
(* " some", " lines", "-in", " file1".                                     *)
(***************************************************************************)
ExampleBody == << "+add a line", " some", " lines", "-in", " file1" >>

\* the first hunk of file f is the hunk of the example
IsExampleHunk(f) ==
    /\ Files[f].Mode = Modified
    /\ Len(Files[f].Chunks) >= 1
    /\ lines[Files[f].Chunks[1].src + 1] = "@@ -1,4 +1,4 @@"
    /\ LET body == Files[f].Chunks[1].WholeRange.Lines
       IN  [k \in 1..Len(body) |-> lines[body[k].src + 1]] = ExampleBody

Rec(mode, content, number, position) ==
    [Mode |-> mode, Number |-> number, Content |-> content, Position |-> position]

SideEnd(l, i) ==
    LET e == DigitsEnd(l, i)
        e2 == DigitsEnd(l, e + 1)
    IN  IF e = i \/ ~Atoi(SubSeq(l, i, e - 1)).ok THEN 0
        ELSE IF Ch(l, e) # "," THEN e
        ELSE IF e2 = e + 1 \/ ~Atoi(SubSeq(l, e + 1, e2 - 1)).ok THEN 0
        ELSE e2

\* the line has the shape of a hunk heading
HeadingShape(l) ==
    /\ Sub(l, 1, 4) = "@@ -"
    /\ SideEnd(l, 5) # 0
    /\ Sub(l, SideEnd(l, 5), 2) = " +"
    /\ SideEnd(l, SideEnd(l, 5) + 2) # 0
    /\ Sub(l, SideEnd(l, SideEnd(l, 5) + 2), 3) = " @@"
    /\ LET t == SideEnd(l, SideEnd(l, 5) + 2) + 3
       IN  t = Len(l) + 1 \/ Ch(l, t) = " "

C7_MalformedHeadingFails ==
    \A i \in 1..Len(lines) :
        (HasPrefix(lines[i], "@@ ") /\ ~HeadingShape(lines[i])) =>
            /\ idx < i
            /\ (idx = i - 1 /\ pc # "loop") => Failed

(***************************************************************************)
(* C8.  While a hunk is active, a line that no earlier case takes, that is *)
(* not passed over (empty, the no-newline marker, "---" or "+++" first)    *)
(* and whose first character is not a space, "+" or "-" ends Parse at once *)
(* with an error that names the line: no later line is processed and no    *)
(* Diff, partial or whole, is returned.                                    *)
(***************************************************************************)
Unrecognized(l) ==
    /\ ~HasPrefix(l, "diff ")
    /\ l # nullDest /\ l # nullSource
    /\ ~HasPrefix(l, oldFilePrefix) /\ ~HasPrefix(l, newFilePrefix)
    /\ ~HasPrefix(l, "@@ ")
    /\ l # "" /\ l # noNewline
    /\ ~HasPrefix(l, "---") /\ ~HasPrefix(l, "+++")
    /\ Ch(l, 1) \notin {" ", "+", "-"}

C8_UnrecognizedLineAborts ==
    \A i \in 1..Len(lines) :
        (HunkActiveAt(lines, i) /\ Unrecognized(lines[i])) =>
            /\ idx < i
            /\ ret # "diff"
            /\ (idx = i - 1 /\ pc # "loop") =>
                  /\ pc = "returned"
                  /\ ret = "nil"
                  /\ err = "could not parse line mode for line: \"" \o lines[i] \o "\""

\* Parse has failed at such a line, after a file, a heading and a body line
C8_Witness ==
    /\ Failed
    /\ idx >= 3
    /\ HunkActiveAt(lines, idx + 1)
    /\ Unrecognized(lines[idx + 1])
    /\ Len(Files) >= 1

(***************************************************************************)
(* C9.  The map that Changed returns holds, under each key, exactly the    *)
(* Numbers of the Added records of the NewRange of the hunks of the files  *)
(* of that NewName that are not Deleted, in the order of the Diff: a       *)
(* Deleted file gives no number, and a Removed or Unchanged line gives no  *)
(* number.  As claimed, no key is the name of a Deleted file; amended, a   *)
(* key is the NewName of a file that is not Deleted and has an Added line, *)
(* whether or not a Deleted file has the same NewName.                     *)
(***************************************************************************)
RECURSIVE Concat(_)
\* the concatenation of a sequence of sequences
Concat(ss) == IF ss = << >> THEN << >> ELSE Head(ss) \o Concat(Tail(ss))

\* the records of the new side of all hunks of file f, in order
NewSide(f) == Concat([c \in 1..Len(f.Chunks) |-> f.Chunks[c].NewRange.Lines])

\* the Numbers of the Added lines of file f, none for a Deleted file
AddedNumbers(f) ==
    IF f.Mode = Deleted THEN << >>
    ELSE LET a == OfModes(NewSide(f), {Added})
         IN  [k \in 1..Len(a) |-> a[k].Number]

\* the map that the claim describes
ExpectedChanged ==
    LET keys == {Files[f].NewName : f \in {g \in 1..Len(Files) : AddedNumbers(Files[g]) # << >>}}
    IN  [key \in keys |->
            Concat([f \in 1..Len(Files) |->
                       IF Files[f].NewName = key THEN AddedNumbers(Files[f]) ELSE << >>])]

FirstLine(text) == Split(text)[1]

C10_OneFilePerDiffLine ==
    Succeeded =>
        /\ Len(Files) = Cardinality(DiffLines(lines))
        /\ \A k \in 1..Len(Files) :
              /\ FirstLine(Files[k].DiffHeader) = lines[NthDiff(lines, k)]
              /\ \A c \in 1..Len(Files[k].Chunks) :
                    Files[k].Chunks[c].src + 1 \in Section(lines, k)

\* three files, the second begun while a hunk of the first was active
C10_Witness ==
    /\ Succeeded
    /\ Len(Files) >= 3
    /\ \E i \in DiffLines(lines) : HunkActiveAt(lines, i)
    /\ \E j, k \in DiffLines(lines) : lines[j] # lines[k]

(***************************************************************************)
(* C11.  The Content of every record of a body line is the input line      *)
(* without its first character, the marker, and nothing else is removed;   *)
(* a body line that is "+" or "-" alone gets a record of Content "".       *)
(***************************************************************************)
\* the records of all three ranges of a hunk
RecordsOf(chunk) ==
    {chunk.OrigRange.Lines[k] : k \in 1..Len(chunk.OrigRange.Lines)}
    \cup {chunk.NewRange.Lines[k] : k \in 1..Len(chunk.NewRange.Lines)}
    \cup {chunk.WholeRange.Lines[k] : k \in 1..Len(chunk.WholeRange.Lines)}

\* the records of all hunks of all files
AllRecords == UNION {RecordsOf(x.chunk) : x \in AllChunks}

C11_ContentIsLineWithoutMarker ==
    /\ \A r \in AllRecords : r.Content = From(lines[r.src + 1], 1)
    /\ \A i \in 1..Len(lines) :
          (HunkActiveAt(lines, i) /\ lines[i] \in {"+", "-"}) =>
              /\ idx = i - 1 => pc = "loop"
              /\ idx >= i => \E r \in AllRecords : r.src = i - 1 /\ r.Content = ""

(***************************************************************************)
(* C12.  In the Diff that Parse returns, a New file has an empty OrigName  *)
(* and a NewName, a Deleted file an empty NewName and an OrigName, and a   *)
(* Modified file has both names, also when its section has no path line.  *)
(***************************************************************************)
C12_NamesGovernedByMode ==
    Succeeded =>
        \A f \in 1..Len(Files) :
            /\ Files[f].Mode = New =>
                  Files[f].OrigName = "" /\ Files[f].NewName # ""
            /\ Files[f].Mode = Deleted =>
                  Files[f].NewName = "" /\ Files[f].OrigName # ""
            /\ Files[f].Mode = Modified =>
                  Files[f].OrigName # "" /\ Files[f].NewName # ""

(***************************************************************************)
(* C13.  Under every key of the map of Changed the numbers are in the      *)
(* order of the input.  As claimed, they are strictly ascending whatever   *)
(* the hunks and the files of that NewName; amended, they are consecutive  *)
(* from the declared start within one run of Added lines of a hunk, and    *)
(* ascend from one hunk or file to the next only as far as the declared    *)
(* new-side starts do.                                                     *)
(***************************************************************************)
\* the Added records of the new side of file f, in the order of the input
AddedOf(f) == OfModes(NewSide(f), {Added})

\* the Added records that Changed reads for a key, in the order of the input
AddedUnder(key) ==
    Concat([f \in 1..Len(Files) |->
               IF Files[f].NewName = key /\ Files[f].Mode # Deleted
               THEN AddedOf(Files[f]) ELSE << >>])

\* C13 as the claim states it
C13_StrictlyAscending ==
    pc = "queried" =>
        \A key \in DOMAIN changed :
            \A i, j \in 1..Len(changed[key]) :
                i < j => changed[key][i] < changed[key][j]

\* C13, amended: the k-th number of a key is the Number of the k-th Added
\* record of that name in the input, hence the input lines of the numbers
\* ascend; two numbers in a row that come from one hunk ascend by the number
\* of new-side lines between them
C13_InputOrder ==
    pc = "queried" =>
        \A key \in DOMAIN changed :
            LET a == AddedUnder(key)
            IN  /\ Len(changed[key]) = Len(a)
                /\ \A k \in 1..Len(a) : changed[key][k] = a[k].Number
                /\ \A k \in 1..(Len(a) - 1) :
                      /\ a[k].src < a[k + 1].src
                      /\ (\A i \in (a[k].src + 2)..(a[k + 1].src) :
                              /\ ~HasPrefix(lines[i], "@@ ")
                              /\ ~HasPrefix(lines[i], "diff "))
                         => changed[key][k + 1] - changed[key][k]
                              = 1 + Cardinality({i \in (a[k].src + 2)..(a[k + 1].src) :
                                                    isSourceLine(lines[i])
                                                    /\ Ch(lines[i], 1) = " "})

\* a key with the numbers of two hunks and of two files: ascending within
\* the first hunk, not ascending from hunk to hunk and from file to file
C13_Witness ==
    /\ pc = "queried"
    /\ \E key \in DOMAIN changed :
          /\ Len(changed[key]) >= 4
          /\ changed[key][1] < changed[key][2]
          /\ changed[key][2] > changed[key][3]
          /\ changed[key][3] = changed[key][4]

(***************************************************************************)
(* C14.  Parse of the empty text returns a Diff and no error, and the      *)
(* Files of a returned Diff is never nil: it is an empty sequence that is  *)
(* present when the input has no line that begins with "diff ".            *)
(***************************************************************************)
C14_FilesNeverNil ==
    /\ (Raw = "" /\ pc = "returned") => (ret = "diff" /\ err = "" /\ Files = << >>)
    /\ Succeeded => ~FilesNil

(***************************************************************************)
(* C15.  After a successful Parse, every hunk has one WholeRange entry for *)
(* every body line, in the order of the input; one NewRange record for     *)
(* every Added and every Unchanged line, one OrigRange record for every    *)
(* Removed and every Unchanged line; the two records of an Unchanged line  *)
(* have the same Content and Position; and Length is the number of body    *)
(* lines plus one.                                                         *)
(***************************************************************************)
\* the place of the last line of the hunk whose heading is at place h: the
\* line before the next line that begins with "diff " or "@@ "
HunkEnd(ls, h) ==
    LET nxt == {i \in (h + 1)..Len(ls) :
                   HasPrefix(ls[i], "diff ") \/ HasPrefix(ls[i], "@@ ")}
    IN  IF nxt = {} THEN Len(ls) ELSE (CHOOSE i \in nxt : \A j \in nxt : i <= j) - 1

\* a body line: not passed over, and with one of the markers in front
IsBody(l) ==
    /\ l # "" /\ l # noNewline
    /\ ~HasPrefix(l, "---") /\ ~HasPrefix(l, "+++")
    /\ Ch(l, 1) \in {"+", "-", " "}

\* the places of the body lines, with a marker of ms, of the hunk at place h
Body(ls, h, ms) ==
    {i \in (h + 1)..HunkEnd(ls, h) : IsBody(ls[i]) /\ Ch(ls[i], 1) \in ms}

\* the indices (from 0) of the lines of a set of places, in ascending order
Ordered(S) ==
    [k \in 1..Cardinality(S) |->
        (CHOOSE i \in S : Cardinality({j \in S : j < i}) = k - 1) - 1]

C15_RecordsPerBodyLine ==
    Succeeded =>
        \A x \in AllChunks :
            LET h == x.chunk.src + 1
                orig == x.chunk.OrigRange.Lines
                new == x.chunk.NewRange.Lines
                whole == x.chunk.WholeRange.Lines
            IN  /\ Sources(whole) = Ordered(Body(lines, h, {"+", "-", " "}))
                /\ Sources(new) = Ordered(Body(lines, h, {"+", " "}))
                /\ Sources(orig) = Ordered(Body(lines, h, {"-", " "}))
                /\ \A r \in RecordsOf(x.chunk) :
                      r.Mode = ModeOfMarker(Ch(lines[r.src + 1], 1))
                /\ \A k \in 1..Len(orig), j \in 1..Len(new) :
                      orig[k].src = new[j].src =>
                          /\ orig[k].Content = new[j].Content
                          /\ orig[k].Position = new[j].Position
                /\ \A k \in 1..Len(whole) :
                      \/ \E j \in 1..Len(new) : new[j] = whole[k]
                      \/ \E j \in 1..Len(orig) : orig[j] = whole[k]
                /\ Length(x.chunk)
                      = Cardinality(Body(lines, h, {"+"})) + Cardinality(Body(lines, h, {"-"}))
                        + Cardinality(Body(lines, h, {" "})) + 1

\* a hunk with an Added, a Removed and an Unchanged line and a line that is
\* passed over
C15_Witness ==
    /\ Succeeded
    /\ \E x \in AllChunks :
          LET h == x.chunk.src + 1
          IN  /\ Body(lines, h, {"+"}) # {}
              /\ Body(lines, h, {"-"}) # {}
              /\ Body(lines, h, {" "}) # {}
              /\ \E i \in (h + 1)..HunkEnd(lines, h) : ~IsBody(lines[i])
              /\ Length(x.chunk) = 4

(***************************************************************************)
(* C16.  While a hunk is active, the step for a line that is empty, is the *)
(* no-newline marker, or begins with "---" or "+++" adds no record to any  *)
(* range, leaves AddedCount and RemovedCount as they are, leaves the Mode, *)
(* the OrigName and the NewName of the current file as they are, and       *)
(* changes nothing but the position counter, which grows by one.           *)
(***************************************************************************)
\* a line that is passed over inside a hunk
Ignorable(l) ==
    l = "" \/ l = noNewline \/ HasPrefix(l, "---") \/ HasPrefix(l, "+++")

C16_IgnoredLineChangesNothing ==
    [][(/\ pc = "loop"
        /\ idx < Len(lines)
        /\ HunkActiveAt(lines, idx + 1)
        /\ Ignorable(lines[idx + 1]))
       => /\ idx' = idx + 1
          /\ diffPosCount' = diffPosCount + 1
          /\ UNCHANGED << Files, FilesNil, file, hunk, AddedCount, RemovedCount,
                          inHunk, firstHunkInFile, pc, ret, err >>]_vars

(***************************************************************************)
(* C17.  A line that begins with "diff " ends the active hunk: every line  *)
(* record was made from a line that lies between the heading of its own    *)
(* hunk and the next line that begins with "diff " or "@@ ", and the error *)
(* of an unrecognized line mode is returned only for such a line.  A line  *)
(* between a "diff " line and the next heading gives neither.              *)
(***************************************************************************)
\* the error that lineMode returns for the line
LineModeError(l) == "could not parse line mode for line: \"" \o l \o "\""

C17_DiffLineEndsHunk ==
    /\ \A x \in AllChunks :
          \A r \in RecordsOf(x.chunk) :
              /\ HunkActiveAt(lines, r.src + 1)
              /\ x.chunk.src + 1 < r.src + 1
              /\ r.src + 1 <= HunkEnd(lines, x.chunk.src + 1)
    /\ (Failed /\ idx < Len(lines) /\ err = LineModeError(lines[idx + 1]))
          => HunkActiveAt(lines, idx + 1)

\* Parse has passed a body line and a line of no known marker that lie
\* between a "diff " line and the next heading, after a hunk of the file
\* before; the hunks before and after have their own records
C17_Witness ==
    /\ Succeeded
    /\ \E i, j \in 1..Len(lines) :
          /\ ~HunkActiveAt(lines, i) /\ IsBody(lines[i])
          /\ ~HunkActiveAt(lines, j) /\ Unrecognized(lines[j])
          /\ \E h \in 1..(i - 1) : HasPrefix(lines[h], "@@ ")
    /\ Len(Files) >= 2
    /\ \A f \in 1..2 :
          Len(Files[f].Chunks) = 1 /\ Len(Files[f].Chunks[1].WholeRange.Lines) = 1

(***************************************************************************)
(* C18.  The DiffHeader of every file is a block of the input that begins  *)
(* with the file's "diff " line: its lines are that line and the lines     *)
(* that follow it in the input, one after the other and none left out; and *)
(* it holds the line after the "diff " line whenever that line matches     *)
(* "index ...", also when fewer than three lines follow the "diff " line.  *)
(***************************************************************************)
C18_HeaderIsContiguousBlock ==
    \A k \in 1..Len(Files) :
        LET d == NthDiff(lines, k)
            hl == Split(Files[k].DiffHeader)
        IN  /\ \A j \in 1..Len(hl) :
                  d + j - 1 <= Len(lines) /\ hl[j] = lines[d + j - 1]
            /\ (d + 1 <= Len(lines) /\ MatchIndex(lines[d + 1]))
                  => (Len(hl) >= 2 /\ hl[2] = lines[d + 1])

=============================================================================
